---- MODULE Spec2Model ----
(***************************************************************************)
(* A model of benchmark/benchmark.py: the timing sampler (benchmark), the  *)
(* result store (update_database over the table `benchmarks`), problem     *)
(* discovery (discover_problems) and the orchestrator (main).              *)
(*                                                                         *)
(* Three specifications are given.                                         *)
(*   Spec      is the result store: update_database called on an open      *)
(*             sqlite3 connection, for arbitrary problems and languages    *)
(*             and every statistics dict benchmark can return, starting    *)
(*             from the empty table init_database creates.                 *)
(*   SpecUnit  is one unit of work, lines 313-315 and 325-326, run by      *)
(*             invocation: stats = benchmark(cmd, RUNS, WARMUP) followed   *)
(*             by update_database(conn, ...) on an open connection.        *)
(*   SpecMain  is main() as written: conn is whatever init_database       *)
(*             returns, the units are the ones discover_problems finds.    *)
(*                                                                         *)
(* The benchmark frame of a unit that failed is kept until the next unit   *)
(* starts, so that a failed unit can be told from one that never ran.      *)
(*                                                                         *)
(* Python values: a str is a tuple of one-character strings; an optional   *)
(* value is None == <<>> or <<v>>. Durations are whole clock ticks and the *)
(* statistics are carried in thousandths of a tick (fixed point).          *)
(***************************************************************************)
EXTENDS Integers, Sequences, FiniteSets, TLC

(* ------------------------------ bounds --------------------------------- *)
\* at most MaxCalls operations on the store (update_database calls and
\* restarts of the harness process) happen in one behaviour of Spec
MaxCalls == 3
\* at most MaxUnits units of work reach update_database in one behaviour of
\* SpecUnit
MaxUnits == 2
\* the language directory holds at most MaxEntries entries
MaxEntries == 2
\* measured and warm-up runs per benchmark (the source runs 20 and 5; the
\* function takes both as parameters)
RUNS == 3
WARMUP == 1

(* --------------------------- Python values ----------------------------- *)
None == <<>>
Some(v) == <<v>>

NoConnection == "None"
Connection == "sqlite3.Connection"
ClosedConnection == "closed sqlite3.Connection"

Whitespace == {" ", "\n", "\t"}

\* str.strip(): drop leading and trailing whitespace
RECURSIVE LStrip(_)
LStrip(s) ==
    IF s # <<>> /\ Head(s) \in Whitespace THEN LStrip(Tail(s)) ELSE s

RECURSIVE RStrip(_)
RStrip(s) ==
    IF s # <<>> /\ s[Len(s)] \in Whitespace
    THEN RStrip(SubSeq(s, 1, Len(s) - 1))
    ELSE s

Strip(s) == RStrip(LStrip(s))

(* ------------------------- external processes -------------------------- *)
\* what a benchmarked program can write to standard output
Stdouts ==
    { <<"4", "2", "\n">>, <<"4", "3", "\n">>, <<"4", "2">> }

\* the ways one invocation of a command can end
Processes ==
    { [returncode |-> 1, stdout |-> <<>>] }
    \cup { [returncode |-> 0, stdout |-> s] : s \in Stdouts }

\* the wall-clock durations one invocation can take, in ticks
Durations == {1, 2}

\* run_command: check=True raises on a non-zero exit, else stdout.strip()
RunCommand(proc) ==
    IF proc.returncode # 0
    THEN [raised |-> "CalledProcessError", output |-> <<>>]
    ELSE [raised |-> "", output |-> Strip(proc.stdout)]

(* ----------------------------- statistics ------------------------------ *)
RECURSIVE SumSeq(_)
SumSeq(s) == IF s = <<>> THEN 0 ELSE Head(s) + SumSeq(Tail(s))

RECURSIVE SumSquares(_)
SumSquares(s) == IF s = <<>> THEN 0 ELSE Head(s) * Head(s) + SumSquares(Tail(s))

Elements(s) == { s[i] : i \in 1..Len(s) }

MinOf(s) == CHOOSE x \in Elements(s) : \A y \in Elements(s) : x <= y

MaxOf(s) == CHOOSE x \in Elements(s) : \A y \in Elements(s) : x >= y

\* statistics.mean, in thousandths of a tick
Mean(s) == (1000 * SumSeq(s)) \div Len(s)

\* integer square root by bisection: the r in lo..hi with r*r <= n < (r+1)^2
RECURSIVE IsqrtBetween(_, _, _)
IsqrtBetween(lo, hi, n) ==
    IF lo = hi THEN lo
    ELSE LET mid == (lo + hi + 1) \div 2
         IN  IF mid <= n \div mid
             THEN IsqrtBetween(mid, hi, n)
             ELSE IsqrtBetween(lo, mid - 1, n)

Isqrt(n) == IsqrtBetween(0, n, n)

\* statistics.stdev: the sample (N-1) standard deviation, in thousandths
Stdev(s) ==
    LET n == Len(s)
    IN  Isqrt((1000000 * (n * SumSquares(s) - SumSeq(s) * SumSeq(s)))
                \div (n * (n - 1)))

\* the dict benchmark returns
BenchmarkStats(times, answer) ==
    [ avg    |-> Mean(times),
      min    |-> 1000 * MinOf(times),
      max    |-> 1000 * MaxOf(times),
      stdev  |-> IF Len(times) > 1 THEN Stdev(times) ELSE 0,
      answer |-> answer ]

(* ------------------------- the timing sampler -------------------------- *)
\* mutation: the outputs of later runs are not compared with the latched one
MeasuredRunStepUnchecked(ts, ans, proc, elapsed) ==
    LET r == RunCommand(proc)
    IN  IF r.raised # ""
        THEN [raised |-> r.raised, times |-> ts, answer |-> ans]
        ELSE [raised |-> "", times |-> Append(ts, elapsed),
              answer |-> IF ans = None THEN Some(r.output) ELSE ans]

\* one iteration of the measured loop of benchmark: run the command, time
\* it, latch the first output and compare every later one with it
MeasuredRunStep(ts, ans, proc, elapsed) ==
    LET r == RunCommand(proc)
    IN  IF r.raised # ""
        THEN [raised |-> r.raised, times |-> ts, answer |-> ans]
        ELSE IF ans = None
        THEN [raised |-> "", times |-> Append(ts, elapsed),
              answer |-> Some(r.output)]
        ELSE IF ans # Some(r.output)
        THEN [raised |-> "ValueError", times |-> Append(ts, elapsed),
              answer |-> ans]
        ELSE [raised |-> "", times |-> Append(ts, elapsed), answer |-> ans]

(* --------------------------- the result store -------------------------- *)
\* the problems and languages update_database is called with
Problems == {1, 2}
Languages == {"python", "rust"}

\* one row of the table benchmarks
Row(problem, language, stats, timestamp) ==
    [ problem   |-> problem,
      language  |-> language,
      min_time  |-> stats.min,
      avg_time  |-> stats.avg,
      max_time  |-> stats.max,
      stdev     |-> stats.stdev,
      timestamp |-> timestamp,
      answer    |-> stats.answer ]

\* SELECT answer ... WHERE problem = ? AND answer IS NOT NULL LIMIT 1, then
\* fetchone(): None, or the 1-tuple of whichever matching row comes first
SelectAnswer(table, problem) ==
    LET found == { r \in table : r.problem = problem /\ r.answer # None }
    IN  IF found = {} THEN { None } ELSE { Some(r.answer) : r \in found }

\* mutation: the lookup of the key matches no row
SelectMinTimeNoMatch(table, problem, language) == { None }

\* SELECT min_time ... WHERE problem = ? AND language = ?, then fetchone()
SelectMinTime(table, problem, language) ==
    LET found == { r \in table : r.problem = problem /\ r.language = language }
    IN  IF found = {} THEN { None } ELSE { Some(r.min_time) : r \in found }

\* mutation: the guard never fires
AnswerMismatchIgnored(stats, existing_answer) == FALSE

\* the answer-consistency guard
AnswerMismatch(stats, existing_answer) ==
    existing_answer # None /\ stats.answer # existing_answer[1]

\* mutation: > in place of <
IsSlower(stats, existing) == stats.min > existing[1]

\* mutation: <= in place of <
IsFasterOrEqual(stats, existing) == stats.min <= existing[1]

\* the comparison that decides between "improved" and "slower"
IsFaster(stats, existing) == stats.min < existing[1]

\* mutation: the insert replaces the rows the problem already has
InsertRowReplacing(table, problem, language, stats, timestamp) ==
    { r \in table : r.problem # problem }
    \cup { Row(problem, language, stats, timestamp) }

\* INSERT INTO benchmarks ... VALUES (...)
InsertRow(table, problem, language, stats, timestamp) ==
    table \cup { Row(problem, language, stats, timestamp) }

\* mutation: the WHERE clause leaves out the language
UpdateRowAnyLanguage(table, problem, language, stats, timestamp) ==
    { IF r.problem = problem
      THEN Row(r.problem, r.language, stats, timestamp)
      ELSE r : r \in table }

\* UPDATE benchmarks SET ... WHERE problem = ? AND language = ?
UpdateRow(table, problem, language, stats, timestamp) ==
    { IF r.problem = problem /\ r.language = language
      THEN Row(problem, language, stats, timestamp)
      ELSE r : r \in table }

\* mutation: the first component of the returned pair is always True
ReturnedAccepted(accepted, status, table) ==
    [raised |-> "", accepted |-> TRUE, status |-> status,
     benchmarks |-> table]

\* the value update_database returns
Returned(accepted, status, table) ==
    [raised |-> "", accepted |-> accepted, status |-> status,
     benchmarks |-> table]

Raised(exception, table) ==
    [raised |-> exception, accepted |-> FALSE, status |-> "",
     benchmarks |-> table]

\* mutation: the row is written before the answers are compared
UpdateDatabaseWriteFirst(c, table, problem, language, stats, existing_answer, existing, timestamp) ==
    IF c = NoConnection
    THEN Raised("AttributeError", table)
    ELSE LET written ==
                 IF existing = None
                 THEN Returned(TRUE, "new",
                               InsertRow(table, problem, language, stats,
                                         timestamp))
                 ELSE IF IsFaster(stats, existing)
                 THEN Returned(TRUE, "improved",
                               UpdateRow(table, problem, language, stats,
                                         timestamp))
                 ELSE Returned(FALSE, "slower", table)
         IN  IF AnswerMismatch(stats, existing_answer)
             THEN Raised("ValueError", written.benchmarks)
             ELSE written

\* mutation: a measurement that is not faster still refreshes the timestamp
UpdateDatabaseTouching(c, table, problem, language, stats, existing_answer, existing, timestamp) ==
    IF c = NoConnection
    THEN Raised("AttributeError", table)
    ELSE IF AnswerMismatch(stats, existing_answer)
    THEN Raised("ValueError", table)
    ELSE IF existing = None
    THEN Returned(TRUE, "new",
                  InsertRow(table, problem, language, stats, timestamp))
    ELSE IF IsFaster(stats, existing)
    THEN Returned(TRUE, "improved",
                  UpdateRow(table, problem, language, stats, timestamp))
    ELSE Returned(FALSE, "slower",
                  { IF r.problem = problem /\ r.language = language
                    THEN [r EXCEPT !.timestamp = timestamp]
                    ELSE r : r \in table })

\* mutation: the answer is checked only before an insert
UpdateDatabaseGuardsInsert(c, table, problem, language, stats, existing_answer, existing, timestamp) ==
    IF c = NoConnection
    THEN Raised("AttributeError", table)
    ELSE IF existing = None /\ AnswerMismatch(stats, existing_answer)
    THEN Raised("ValueError", table)
    ELSE IF existing = None
    THEN Returned(TRUE, "new",
                  InsertRow(table, problem, language, stats, timestamp))
    ELSE IF IsFaster(stats, existing)
    THEN Returned(TRUE, "improved",
                  UpdateRow(table, problem, language, stats, timestamp))
    ELSE Returned(FALSE, "slower", table)

\* update_database(conn, problem, language, stats); existing_answer and
\* existing are the results of its two fetchone() calls
UpdateDatabase(c, table, problem, language, stats, existing_answer, existing, timestamp) ==
    IF c = NoConnection
    THEN Raised("AttributeError", table)
    ELSE IF AnswerMismatch(stats, existing_answer)
    THEN Raised("ValueError", table)
    ELSE IF existing = None
    THEN Returned(TRUE, "new",
                  InsertRow(table, problem, language, stats, timestamp))
    ELSE IF IsFaster(stats, existing)
    THEN Returned(TRUE, "improved",
                  UpdateRow(table, problem, language, stats, timestamp))
    ELSE Returned(FALSE, "slower", table)

(* ------------------------------- state --------------------------------- *)
VARIABLES
    pc,           \* position of the running code
    conn,         \* the connection handed to update_database
    benchmarks,   \* the rows of the table benchmarks
    now,          \* the wall clock datetime.now() reads
    unit,         \* the (problem, language) being benchmarked
    warm,         \* warm-up runs completed
    times,        \* benchmark's list times
    answer,       \* benchmark's latched answer
    stats,        \* the dict benchmark returned, if it returned
    exc,          \* the exception in flight, "" if none
    outputs,      \* history: the outputs of the measured runs of this unit
    invocations,  \* history: run_command calls made for this unit
    snapshot,     \* history: the table when this unit started
    history,      \* history: every update_database call, in order
    pre,          \* history: the table before the latest update_database call
    process,      \* history: harness processes that have opened the store
    args,         \* main: the parsed command line
    project_root, \* main: the directories under the project root
    languages,    \* main: the languages to benchmark
    li,           \* main: index of the current language
    problems,     \* main: the entries discovered for the current language
    pj,           \* main: index of the current problem
    total_benchmarks,
    new_count,
    improved_count,
    exit_code,    \* main: the exit status of the process, once it has ended
    csv_file,     \* results.csv, once written
    md_file,      \* BENCHMARKS.md, once written
    summary,      \* the counts of the summary, once printed
    attempted,    \* history: the units whose benchmark was started, in order
    caught        \* history: the exceptions the except clause has caught

benchVars == <<unit, warm, times, answer, stats, exc, outputs, invocations,
               snapshot>>
storeVars == <<benchmarks, now, history, pre, process>>
mainVars == <<args, project_root, languages, li, problems, pj,
              total_benchmarks, new_count, improved_count, exit_code,
              csv_file, md_file, summary, attempted, caught>>
vars == <<pc, conn, benchVars, storeVars, mainVars>>

NoUnit == [problem |-> 0, language |-> ""]

\* the frame of a benchmark call that has not started
BenchIdle ==
    /\ unit = NoUnit
    /\ warm = 0
    /\ times = <<>>
    /\ answer = None
    /\ stats = None
    /\ exc = ""
    /\ outputs = <<>>
    /\ invocations = 0
    /\ snapshot = {}

\* the locals of main before main has run
MainIdle ==
    /\ languages = <<>>
    /\ li = 0
    /\ problems = <<>>
    /\ pj = 0
    /\ total_benchmarks = 0
    /\ new_count = 0
    /\ improved_count = 0
    /\ exit_code = None
    /\ csv_file = None
    /\ md_file = None
    /\ summary = None
    /\ attempted = <<>>
    /\ caught = {}

\* the table as init_database creates it
StoreEmpty ==
    /\ benchmarks = {}
    /\ now = 0
    /\ history = <<>>
    /\ pre = {}
    /\ process = 1

Init ==
    /\ pc = "idle"
    /\ conn = Connection
    /\ StoreEmpty
    /\ BenchIdle
    /\ args = [language |-> None, problem |-> None]
    /\ project_root = [d \in {"python"} |-> None]
    /\ MainIdle

(* ------------------------------ benchmark ------------------------------ *)
\* mutation: the warm-up loop is skipped
EnterBenchmarkNoWarmup(u) ==
    /\ unit' = u
    /\ warm' = 0
    /\ times' = <<>>
    /\ answer' = None
    /\ stats' = None
    /\ exc' = ""
    /\ outputs' = <<>>
    /\ invocations' = 0
    /\ snapshot' = benchmarks
    /\ pc' = "measure"

\* entry of benchmark(cmd, runs, warmup) for the unit u
EnterBenchmark(u) ==
    /\ unit' = u
    /\ warm' = 0
    /\ times' = <<>>
    /\ answer' = None
    /\ stats' = None
    /\ exc' = ""
    /\ outputs' = <<>>
    /\ invocations' = 0
    /\ snapshot' = benchmarks
    /\ pc' = IF WARMUP > 0 THEN "warmup" ELSE "measure"

\* the frame is dropped when the unit is over
LeaveBenchmark ==
    /\ unit' = NoUnit
    /\ warm' = 0
    /\ times' = <<>>
    /\ answer' = None
    /\ stats' = None
    /\ exc' = ""
    /\ outputs' = <<>>
    /\ invocations' = 0
    /\ snapshot' = {}

\* one warm-up invocation: timing and output are discarded
WarmupRun ==
    /\ pc = "warmup"
    /\ \E proc \in Processes :
         LET r == RunCommand(proc)
         IN  /\ invocations' = invocations + 1
             /\ IF r.raised # ""
                THEN /\ pc' = "raised"
                     /\ exc' = r.raised
                     /\ warm' = warm
                ELSE /\ warm' = warm + 1
                     /\ exc' = exc
                     /\ pc' = IF warm + 1 < WARMUP THEN "warmup" ELSE "measure"
    /\ UNCHANGED <<conn, unit, times, answer, stats, outputs, snapshot,
                   storeVars, mainVars>>

\* one measured invocation; the last one returns the statistics
MeasuredRun ==
    /\ pc = "measure"
    /\ \E proc \in Processes, elapsed \in Durations :
         LET s == MeasuredRunStep(times, answer, proc, elapsed)
         IN  /\ invocations' = invocations + 1
             /\ times' = s.times
             /\ answer' = s.answer
             /\ outputs' = IF proc.returncode = 0
                           THEN Append(outputs, RunCommand(proc).output)
                           ELSE outputs
             /\ exc' = s.raised
             /\ IF s.raised # ""
                THEN pc' = "raised" /\ stats' = None
                ELSE IF Len(s.times) < RUNS
                THEN pc' = "measure" /\ stats' = None
                ELSE /\ pc' = "returned"
                     /\ stats' = Some(BenchmarkStats(s.times, s.answer))
    /\ UNCHANGED <<conn, unit, warm, snapshot, storeVars, mainVars>>

(* ------------------- benchmark, then update_database ------------------- *)
\* the entry of history for one update_database call
Call(u, st, res, timestamp) ==
    [ problem |-> u.problem, language |-> u.language, stats |-> st,
      raised |-> res.raised, accepted |-> res.accepted,
      status |-> res.status, timestamp |-> timestamp, process |-> process ]

\* update_database(conn, u.problem, u.language, st) on the current table
DoUpdateDatabase(u, st) ==
    /\ now' = now + 1
    /\ \E existing_answer \in SelectAnswer(benchmarks, u.problem),
          existing \in SelectMinTime(benchmarks, u.problem, u.language) :
         LET res == UpdateDatabase(conn, benchmarks, u.problem, u.language,
                                   st, existing_answer, existing, now + 1)
         IN  /\ benchmarks' = res.benchmarks
             /\ history' = Append(history, Call(u, st, res, now + 1))
    /\ pre' = benchmarks
    /\ process' = process

\* the lists of durations behind the statistics update_database is called
\* with: three different minima, two lists that share a minimum, and a list
\* of one sample
SampleTimes == { <<1, 1>>, <<1, 2>>, <<2, 2>>, <<3>> }

\* the dicts benchmark returns for those lists and every output
AllStats ==
    { BenchmarkStats(ts, Some(Strip(s))) : ts \in SampleTimes, s \in Stdouts }

\* update_database called with any problem, language and statistics
UpdateDatabaseCall ==
    /\ pc = "idle"
    /\ Len(history) + (process - 1) < MaxCalls
    /\ \E p \in Problems, l \in Languages, st \in AllStats :
         DoUpdateDatabase([problem |-> p, language |-> l], st)
    /\ UNCHANGED <<pc, conn, benchVars, mainVars>>

\* a caller starts a unit of work: stats = benchmark(cmd, RUNS, WARMUP)
CallBenchmark ==
    /\ pc = "idle"
    /\ Len(history) < MaxUnits
    /\ \E p \in Problems, l \in Languages :
         EnterBenchmark([problem |-> p, language |-> l])
    /\ UNCHANGED <<conn, storeVars, mainVars>>

\* benchmark returned: update_database(conn, problem, language, stats)
CallUpdateDatabase ==
    /\ pc = "returned"
    /\ DoUpdateDatabase(unit, stats[1])
    /\ LeaveBenchmark
    /\ pc' = "idle"
    /\ UNCHANGED <<conn, mainVars>>

\* mutation: the invocation that failed is tried again
BenchmarkFailedRetries ==
    /\ pc = "raised"
    /\ pc' = IF warm < WARMUP THEN "warmup" ELSE "measure"
    /\ UNCHANGED <<conn, benchVars, storeVars, mainVars>>

\* benchmark raised: the unit is over and update_database is not called
BenchmarkFailed ==
    /\ pc = "raised"
    /\ pc' = "idle"
    /\ UNCHANGED <<conn, benchVars, storeVars, mainVars>>

InitUnit == Init

NextUnit ==
    \/ CallBenchmark
    \/ WarmupRun
    \/ MeasuredRun
    \/ CallUpdateDatabase
    \/ BenchmarkFailed

SpecUnit == InitUnit /\ [][NextUnit]_vars

(* -------------------------- problem discovery ------------------------- *)
\* LANGUAGE_CONFIGS: the configured languages and their directories
LANGUAGE_CONFIGS == [python |-> [dir |-> "python"]]

ConfiguredLanguages == DOMAIN LANGUAGE_CONFIGS

Digits == <<"0", "1", "2", "3", "4", "5", "6", "7", "8", "9">>
Letters == <<"a", "b", "c", "d", "e", "f", "g", "h", "i", "j", "k", "l", "m",
             "n", "o", "p", "q", "r", "s", "t", "u", "v", "w", "x", "y", "z">>

IsDigit(c) == \E i \in 1..Len(Digits) : Digits[i] = c

DigitValue(c) == (CHOOSE i \in 1..Len(Digits) : Digits[i] = c) - 1

\* the code point of a character of a file name
Ord(c) ==
    IF c = "-" THEN 45
    ELSE IF IsDigit(c) THEN 48 + DigitValue(c)
    ELSE 96 + (CHOOSE i \in 1..Len(Letters) : Letters[i] = c)

\* a < b for two names, as sorted() compares the paths of one directory
RECURSIVE NameLess(_, _)
NameLess(a, b) ==
    IF b = <<>> THEN FALSE
    ELSE IF a = <<>> THEN TRUE
    ELSE IF Head(a) # Head(b) THEN Ord(Head(a)) < Ord(Head(b))
    ELSE NameLess(Tail(a), Tail(b))

\* sorted(...) of a set of directory entries, by name
RECURSIVE SortedEntries(_)
SortedEntries(es) ==
    IF es = {} THEN <<>>
    ELSE LET first == CHOOSE e \in es :
                        \A o \in es \ {e} : NameLess(e.name, o.name)
         IN  <<first>> \o SortedEntries(es \ {first})

\* str.split(sep): the fields between the separators
RECURSIVE Split(_, _)
Split(s, sep) ==
    IF \A i \in 1..Len(s) : s[i] # sep THEN <<s>>
    ELSE LET k == CHOOSE i \in 1..Len(s) :
                    s[i] = sep /\ \A j \in 1..(i - 1) : s[j] # sep
         IN  <<SubSeq(s, 1, k - 1)>> \o Split(SubSeq(s, k + 1, Len(s)), sep)

RECURSIVE DecimalValue(_)
DecimalValue(s) ==
    IF s = <<>> THEN 0
    ELSE 10 * DecimalValue(SubSeq(s, 1, Len(s) - 1)) + DigitValue(s[Len(s)])

\* int(s) for a field of a name: the value, or None for ValueError
ParseInt(s) ==
    IF s # <<>> /\ \A i \in 1..Len(s) : IsDigit(s[i])
    THEN Some(DecimalValue(s))
    ELSE None

GlobPrefix == <<"p", "r", "o", "b", "l", "e", "m", "-">>

\* glob("problem-*")
MatchesGlob(name) ==
    /\ Len(name) >= Len(GlobPrefix)
    /\ SubSeq(name, 1, Len(GlobPrefix)) = GlobPrefix

\* the body of the discovery loop for the sorted entries es
RECURSIVE CollectProblems(_)
CollectProblems(es) ==
    IF es = <<>> THEN <<>>
    ELSE LET problem_dir == Head(es)
             problem_num == ParseInt(Split(problem_dir.name, "-")[2])
             found ==
                 IF /\ problem_dir.is_dir
                    /\ problem_num # None
                    /\ problem_dir.has_main
                 THEN << [number |-> problem_num[1],
                          path |-> problem_dir.name] >>
                 ELSE <<>>
         IN  found \o CollectProblems(Tail(es))

\* mutation: the entries are taken in descending order of name
DiscoverProblemsDescending(language, root) ==
    IF language \notin ConfiguredLanguages THEN <<>>
    ELSE LET lang_dir == root[LANGUAGE_CONFIGS[language].dir]
         IN  IF lang_dir = None THEN <<>>
             ELSE LET s == SortedEntries(
                               { e \in lang_dir[1] : MatchesGlob(e.name) })
                  IN  CollectProblems([i \in 1..Len(s) |-> s[Len(s) + 1 - i]])

\* discover_problems(language, project_root)
DiscoverProblems(language, root) ==
    IF language \notin ConfiguredLanguages THEN <<>>
    ELSE LET lang_dir == root[LANGUAGE_CONFIGS[language].dir]
         IN  IF lang_dir = None THEN <<>>
             ELSE CollectProblems(SortedEntries(
                      { e \in lang_dir[1] : MatchesGlob(e.name) }))

(* -------------------------------- reports ------------------------------ *)
\* the rank of a language name in the order ORDER BY language gives
LanguageRank(l) == IF l = "python" THEN 1 ELSE 2

RowBefore(a, b) ==
    \/ a.problem < b.problem
    \/ a.problem = b.problem /\ LanguageRank(a.language) < LanguageRank(b.language)

RECURSIVE OrderedRows(_)
OrderedRows(table) ==
    IF table = {} THEN <<>>
    ELSE LET first == CHOOSE r \in table : \A o \in table \ {r} : ~RowBefore(o, r)
         IN  <<first>> \o OrderedRows(table \ {first})

\* get_all_results(conn): the rows without the answer, ordered
GetAllResults(c, table) ==
    IF c = NoConnection
    THEN [raised |-> "AttributeError", rows |-> <<>>]
    ELSE [raised |-> "",
          rows |-> [i \in 1..Cardinality(table) |->
                      LET r == OrderedRows(table)[i]
                      IN  <<r.problem, r.language, r.min_time, r.avg_time,
                            r.max_time, r.stdev, r.timestamp>>]]

\* f"{x:.6f}" of a value held in thousandths
Format6(x) == [whole |-> x \div 1000, micros |-> (x % 1000) * 1000]

\* mutation: the header line is not written
ExportCsvNoHeader(results) ==
    [i \in 1..Len(results) |->
       LET row == results[i]
       IN  <<row[1], row[2], Format6(row[3]), Format6(row[4]),
             Format6(row[5]), Format6(row[6]), row[7] \div 1000000>>]

\* export_csv: the header and one line per row, timestamps to the second
ExportCsv(results) ==
    << <<"Problem", "Language", "Min (s)", "Avg (s)", "Max (s)",
         "StdDev (s)", "Last Updated">> >>
    \o [i \in 1..Len(results) |->
          LET row == results[i]
          IN  <<row[1], row[2], Format6(row[3]), Format6(row[4]),
                Format6(row[5]), Format6(row[6]), row[7] \div 1000000>>]

\* export_markdown: title, date, table header, rule, one line per row
ExportMarkdown(results, today) ==
    << <<"# Project Euler Benchmark Results">>,
       <<"Last updated", today \div 1000000>>,
       <<"Problem", "Language", "Min (s)", "Avg (s)", "Max (s)",
         "StdDev (s)", "Last Updated">>,
       <<"---">> >>
    \o [i \in 1..Len(results) |->
          LET row == results[i]
          IN  <<row[1], row[2], Format6(row[3]), Format6(row[4]),
                Format6(row[5]), Format6(row[6]), (row[7] \div 1000000) \div 86400>>]

(* ---------------------------------- main ------------------------------- *)
\* init_database(): creates the table if it is missing; the function has no
\* return statement
InitDatabase(table) == [benchmarks |-> table, ret |-> NoConnection]

(* -------------------- the store across process runs -------------------- *)
\* lines 328-332 on an open connection: the process reads the results,
\* exports both reports and closes the connection
FinishProcess ==
    /\ pc = "idle"
    /\ Len(history) + (process - 1) < MaxCalls
    /\ LET results == GetAllResults(conn, benchmarks)
       IN  /\ results.raised = ""
           /\ csv_file' = Some(ExportCsv(results.rows))
           /\ md_file' = Some(ExportMarkdown(results.rows, now))
    /\ conn' = ClosedConnection
    /\ pc' = "closed"
    /\ UNCHANGED <<benchVars, storeVars, args, project_root, languages, li,
                   problems, pj, total_benchmarks, new_count, improved_count,
                   exit_code, summary, attempted, caught>>

\* a later process opens the store the earlier ones left: init_database on
\* the existing file, the caller holding the connection sqlite3.connect made
StartProcess ==
    /\ pc = "closed"
    /\ benchmarks' = InitDatabase(benchmarks).benchmarks
    /\ conn' = Connection
    /\ process' = process + 1
    /\ pc' = "idle"
    /\ UNCHANGED <<benchVars, now, history, pre, mainVars>>

Next ==
    \/ UpdateDatabaseCall
    \/ FinishProcess
    \/ StartProcess

Spec == Init /\ [][Next]_vars

(* ------------------------ a store found on disk ------------------------ *)
\* the rows a store file can hold when the process opens it
StoredRows ==
    { Row(p, l, st, 0) : p \in Problems, l \in Languages, st \in AllStats }

\* the tables of a store file found on disk: up to two rows that respect
\* the PRIMARY KEY of line 48 and were not necessarily written by
\* update_database, so the answers of one problem may differ
StoredTables ==
    { {} } \cup
    { t \in { {r1, r2} : r1 \in StoredRows, r2 \in StoredRows } :
        \A a, b \in t :
            (a.problem = b.problem /\ a.language = b.language) => a = b }

\* a process opens such a store with its budget of operations used up but
\* for one call of update_database
InitStored ==
    /\ pc = "idle"
    /\ conn = Connection
    /\ benchmarks \in StoredTables
    /\ now = 0
    /\ history = <<>>
    /\ pre = benchmarks
    /\ process = MaxCalls
    /\ BenchIdle
    /\ args = [language |-> None, problem |-> None]
    /\ project_root = [d \in {"python"} |-> None]
    /\ MainIdle

NextStored == UpdateDatabaseCall

SpecStored == InitStored /\ [][NextStored]_vars

\* the names a language directory can hold
EntryNames ==
    { GlobPrefix \o <<"3">>,
      GlobPrefix \o <<"4">>,
      GlobPrefix \o <<"1", "0">>,
      GlobPrefix \o <<"a", "b", "c">>,
      GlobPrefix \o <<"3", "-", "o", "l", "d">>,
      <<"n", "o", "t", "e", "s">> }

\* every name as a directory holding main.py, one directory without its
\* main.py and one plain file
Entries ==
    { [name |-> n, is_dir |-> TRUE, has_main |-> TRUE] : n \in EntryNames }
    \cup { [name |-> GlobPrefix \o <<"4">>, is_dir |-> TRUE,
            has_main |-> FALSE],
          [name |-> GlobPrefix \o <<"1", "0">>, is_dir |-> FALSE,
            has_main |-> FALSE] }

\* the listings of a language directory: no two entries share a name
Listings ==
    { es \in SUBSET Entries :
        /\ Cardinality(es) <= MaxEntries
        /\ \A a, b \in es : a.name = b.name => a = b }

ProjectRoots ==
    { [d \in {"python"} |-> x] : x \in {None} \cup { Some(es) : es \in Listings } }

\* -l takes one of the configured languages, -p any integer
ArgsSet ==
    { [language |-> l, problem |-> p] :
        l \in {None} \cup { Some(x) : x \in ConfiguredLanguages },
        p \in {None, Some(3)} }

InitMain ==
    /\ pc = "main"
    /\ conn = NoConnection
    /\ StoreEmpty
    /\ BenchIdle
    /\ args \in ArgsSet
    /\ project_root \in ProjectRoots
    /\ MainIdle

\* the entries of one language that pass the -p filter
FilterProblems(found, a) ==
    IF a.problem # None
    THEN SelectSeq(found, LAMBDA p : p.number = a.problem[1])
    ELSE found

\* the languages to benchmark: the one -l names, or every configured one
SelectedLanguages(a) ==
    IF a.language # None THEN <<a.language[1]>> ELSE <<"python">>

\* lines 273-281: parse the arguments, open the store, set the counters
MainStart ==
    /\ pc = "main"
    /\ conn' = InitDatabase(benchmarks).ret
    /\ benchmarks' = InitDatabase(benchmarks).benchmarks
    /\ languages' = SelectedLanguages(args)
    /\ li' = 1
    /\ total_benchmarks' = 0
    /\ new_count' = 0
    /\ improved_count' = 0
    /\ pc' = "language"
    /\ UNCHANGED <<benchVars, now, history, pre, process, args, project_root,
                   problems, pj, exit_code, csv_file, md_file, summary, attempted,
                   caught>>

\* lines 283-296: the head of the loop over the languages
MainLanguage ==
    /\ pc = "language"
    /\ li <= Len(languages)
    /\ LET found == FilterProblems(
                        DiscoverProblems(languages[li], project_root), args)
       IN  /\ problems' = found
           /\ IF found = <<>>
              THEN /\ li' = li + 1
                   /\ pj' = pj
                   /\ pc' = "language"
              ELSE /\ li' = li
                   /\ pj' = 1
                   /\ pc' = "problem"
    /\ UNCHANGED <<conn, benchVars, storeVars, args, project_root, languages,
                   total_benchmarks, new_count, improved_count, exit_code,
                   csv_file, md_file, summary, attempted, caught>>

\* lines 298-314: count the unit, build its command, enter benchmark
MainProblem ==
    /\ pc = "problem"
    /\ total_benchmarks' = total_benchmarks + 1
    /\ attempted' = Append(attempted,
                           [language |-> languages[li],
                            number |-> problems[pj].number,
                            path |-> problems[pj].path])
    /\ EnterBenchmark([problem |-> problems[pj].number,
                       language |-> languages[li]])
    /\ UNCHANGED <<conn, storeVars, args, project_root, languages, li,
                   problems, pj, new_count, improved_count, exit_code,
                   csv_file, md_file, summary, caught>>

\* the loop over the problems moves on to the next entry, or the loop over
\* the languages to the next language
NextProblem ==
    /\ pj' = pj + 1
    /\ IF pj + 1 <= Len(problems)
       THEN pc' = "problem" /\ li' = li
       ELSE pc' = "language" /\ li' = li + 1

\* lines 315-324: update_database and the counters of the summary
MainUpdate ==
    /\ pc = "returned"
    /\ DoUpdateDatabase(unit, stats[1])
    /\ LET res == history'[Len(history')]
       IN  IF res.raised # ""
           THEN /\ pc' = "raised"
                /\ exc' = res.raised
                /\ UNCHANGED <<unit, warm, times, answer, stats, outputs,
                               invocations, snapshot, new_count,
                               improved_count, li, pj>>
           ELSE /\ new_count' = IF res.status = "new"
                                THEN new_count + 1 ELSE new_count
                /\ improved_count' = IF res.status = "improved"
                                     THEN improved_count + 1
                                     ELSE improved_count
                /\ LeaveBenchmark
                /\ NextProblem
    /\ UNCHANGED <<conn, args, project_root, languages, problems,
                   total_benchmarks, exit_code, csv_file, md_file, summary,
                   attempted, caught>>

\* mutation: the exception is not caught and ends the process
MainExceptPropagates ==
    /\ pc = "raised"
    /\ pc' = "exit"
    /\ exit_code' = Some(1)
    /\ UNCHANGED <<conn, benchVars, storeVars, args, project_root, languages,
                   li, problems, pj, total_benchmarks, new_count,
                   improved_count, csv_file, md_file, summary, attempted,
                   caught>>

\* lines 325-326: except Exception prints FAILED and the loop goes on
MainExcept ==
    /\ pc = "raised"
    /\ caught' = caught \cup {exc}
    /\ LeaveBenchmark
    /\ NextProblem
    /\ UNCHANGED <<conn, storeVars, args, project_root, languages, problems,
                   total_benchmarks, new_count, improved_count, exit_code,
                   csv_file, md_file, summary, attempted>>

\* lines 328-341: read the results, export both reports, print the summary;
\* an exception raised here is not caught and ends the process with status 1
MainFinish ==
    /\ pc = "language"
    /\ li > Len(languages)
    /\ LET results == GetAllResults(conn, benchmarks)
       IN  IF results.raised # ""
           THEN /\ exit_code' = Some(1)
                /\ UNCHANGED <<conn, csv_file, md_file, summary>>
           ELSE /\ csv_file' = Some(ExportCsv(results.rows))
                /\ md_file' = Some(ExportMarkdown(results.rows, now))
                /\ summary' = Some([total |-> total_benchmarks,
                                    new |-> new_count,
                                    improved |-> improved_count])
                /\ conn' = ClosedConnection
                /\ exit_code' = Some(0)
    /\ pc' = "exit"
    /\ UNCHANGED <<benchVars, storeVars, args, project_root, languages,
                   li, problems, pj, total_benchmarks, new_count,
                   improved_count, attempted, caught>>

NextMain ==
    \/ MainStart
    \/ MainLanguage
    \/ MainProblem
    \/ WarmupRun
    \/ MeasuredRun
    \/ MainUpdate
    \/ MainExcept
    \/ MainFinish

SpecMain == InitMain /\ [][NextMain]_vars

(* ------------------------------- claims -------------------------------- *)
\* the latest update_database call
LastCall == history[Len(history)]

SameKey(r, c) == r.problem = c.problem /\ r.language = c.language

\* some row of the problem of call c holds a non-null answer other than c's
Conflicts(table, c) ==
    \E r \in table :
        r.problem = c.problem /\ r.answer # None /\ r.answer # c.stats.answer

\* row r holds the statistics and the answer of call c
Carries(r, c) ==
    /\ r.min_time = c.stats.min
    /\ r.avg_time = c.stats.avg
    /\ r.max_time = c.stats.max
    /\ r.stdev = c.stats.stdev
    /\ r.answer = c.stats.answer

\* C1: all rows stored for one problem hold the same answer, whatever calls
\* were made, successful or failed.
C1_SameAnswerPerProblem ==
    \A r1, r2 \in benchmarks : r1.problem = r2.problem => r1.answer = r2.answer

\* two languages of one problem are stored and a call was rejected
C1_Witness ==
    /\ \E r1, r2 \in benchmarks :
          r1.problem = r2.problem /\ r1.language # r2.language
    /\ \E i \in 1..Len(history) : history[i].raised = "ValueError"

\* C2: a call whose answer differs from a stored non-null answer of the same
\* problem fails with the answer-mismatch error and leaves the table as it
\* was.
C2_MismatchRejected ==
    (history # <<>> /\ Conflicts(pre, LastCall))
        => (LastCall.raised = "ValueError" /\ benchmarks = pre)

\* a rejected call that was faster than every stored row, its own key's too
C2_Witness ==
    /\ history # <<>>
    /\ Conflicts(pre, LastCall)
    /\ \E r \in pre : SameKey(r, LastCall)
    /\ \E r \in pre : ~SameKey(r, LastCall)
    /\ \A r \in pre : LastCall.stats.min < r.min_time

\* the calls made for the key of row r
CallsFor(r) == { i \in 1..Len(history) : SameKey(r, history[i]) }

\* of the calls S, the earliest one with the lowest stats.min
Best(S) ==
    CHOOSE i \in S :
        \A j \in S :
            \/ history[i].stats.min < history[j].stats.min
            \/ history[i].stats.min = history[j].stats.min /\ i <= j

\* C3 as stated: every row holds the earliest lowest-min measurement among
\* all the measurements submitted for its key.
C3_BestOfSubmitted ==
    \A r \in benchmarks : Carries(r, history[Best(CallsFor(r))])

\* C3 as amended: every row holds the earliest lowest-min measurement among
\* the measurements submitted for its key that passed the answer check.
C3_BestOfAccepted ==
    \A r \in benchmarks :
        Carries(r, history[Best({ i \in CallsFor(r) : history[i].raised = "" })])

\* a row kept over a later call with the same min and another avg, and a
\* rejected call for the same key
C3_Witness ==
    \E r \in benchmarks :
        /\ \E i, j \in CallsFor(r) :
              /\ i < j
              /\ history[i].raised = "" /\ history[j].raised = ""
              /\ history[i].stats.min = history[j].stats.min
              /\ history[i].stats.avg # history[j].stats.avg
              /\ r.min_time = history[i].stats.min
        /\ \E k \in CallsFor(r) : history[k].raised = "ValueError"

\* C4: with no row for the key and no conflicting answer the call returns
\* (True, "new") and adds exactly one row, carrying the given statistics and
\* answer; on an empty table that row is the only one.
C4_InsertsNew ==
    ( /\ history # <<>>
      /\ ~\E r \in pre : SameKey(r, LastCall)
      /\ ~Conflicts(pre, LastCall) )
        => /\ LastCall.raised = ""
           /\ LastCall.status = "new"
           /\ LastCall.accepted
           /\ \E r \in benchmarks :
                 /\ SameKey(r, LastCall)
                 /\ Carries(r, LastCall)
                 /\ r \notin pre
                 /\ benchmarks \ {r} = pre
           /\ (pre = {} => Cardinality(benchmarks) = 1)

\* a row inserted next to a row of the same problem and one of another
C4_Witness ==
    /\ history # <<>>
    /\ LastCall.status = "new"
    /\ \E r \in pre : r.problem = LastCall.problem
    /\ \E r \in pre : r.problem # LastCall.problem

\* C5: with a row for the key, no conflicting answer and a strictly lower
\* min, the call returns (True, "improved"), the row of the key takes every
\* field of the new measurement and the rows of the other keys stay.
C5_OverwritesImproved ==
    ( /\ history # <<>>
      /\ ~Conflicts(pre, LastCall)
      /\ \E r \in pre : SameKey(r, LastCall) /\ LastCall.stats.min < r.min_time )
        => /\ LastCall.raised = ""
           /\ LastCall.status = "improved"
           /\ LastCall.accepted
           /\ \A r \in benchmarks :
                 SameKey(r, LastCall)
                     => Carries(r, LastCall) /\ r.timestamp = LastCall.timestamp
           /\ \E r \in benchmarks : SameKey(r, LastCall)
           /\ { r \in benchmarks : ~SameKey(r, LastCall) }
                = { r \in pre : ~SameKey(r, LastCall) }

\* an improvement made while the other language of the problem is stored
C5_Witness ==
    /\ history # <<>>
    /\ LastCall.status = "improved"
    /\ \E r \in pre : r.problem = LastCall.problem /\ ~SameKey(r, LastCall)

\* C6: with a row for the key and a min not lower than the stored one, the
\* call changes no field of any row.
C6_NoMutationWhenNotFaster ==
    ( /\ history # <<>>
      /\ \E r \in pre : SameKey(r, LastCall) /\ LastCall.stats.min >= r.min_time )
        => benchmarks = pre

\* a call that returned with a min equal to the stored one and another avg
C6_Witness ==
    /\ history # <<>>
    /\ LastCall.raised = ""
    /\ \E r \in pre :
          /\ SameKey(r, LastCall)
          /\ LastCall.stats.min = r.min_time
          /\ LastCall.stats.avg # r.avg_time
          /\ LastCall.timestamp # r.timestamp

\* the call found a row for its key and was not strictly faster
NonImproving(c) ==
    \E r \in pre : SameKey(r, c) /\ c.stats.min >= r.min_time

\* C7 as stated: a call that returns gives "new", "improved" or "unchanged",
\* accepted exactly for the first two, "unchanged" when not improving.
C7_StatusUnchanged ==
    (history # <<>> /\ LastCall.raised = "")
        => /\ LastCall.status \in {"new", "improved", "unchanged"}
           /\ LastCall.accepted <=> LastCall.status \in {"new", "improved"}
           /\ NonImproving(LastCall) => LastCall.status = "unchanged"

\* C7 as amended: the third status is "slower".
C7_StatusSlower ==
    (history # <<>> /\ LastCall.raised = "")
        => /\ LastCall.status \in {"new", "improved", "slower"}
           /\ LastCall.accepted <=> LastCall.status \in {"new", "improved"}
           /\ NonImproving(LastCall) => LastCall.status = "slower"

\* each of the three statuses has been returned
C7_Witness ==
    /\ \E i \in 1..Len(history) : history[i].status = "new"
    /\ \E i \in 1..Len(history) : history[i].status = "improved"
    /\ history # <<>> /\ LastCall.status = "slower" /\ ~LastCall.accepted

\* C8: when a measured run's output differs from the first one's, benchmark
\* raises the inconsistency error at that run: it is the last invocation of
\* the unit, no statistics are returned and the table is as the unit found it.
C8_InconsistentRunFails ==
    \A i \in 2..Len(outputs) :
        outputs[i] # outputs[1]
            => /\ i = Len(outputs)
               /\ pc \in {"raised", "idle"}
               /\ exc = "ValueError"
               /\ stats = None
               /\ invocations = WARMUP + i
               /\ benchmarks = snapshot

\* the second measured run disagreed, with runs still due and rows stored
C8_Witness ==
    /\ pc = "idle"
    /\ exc = "ValueError"
    /\ Len(outputs) = 2
    /\ Len(outputs) < RUNS
    /\ outputs[2] # outputs[1]
    /\ benchmarks # {}

\* the units of language l that pass the filters, in discovery order
UnitsOf(l) ==
    LET found == FilterProblems(DiscoverProblems(l, project_root), args)
    IN  [i \in 1..Len(found) |->
           [language |-> l, number |-> found[i].number, path |-> found[i].path]]

RECURSIVE UnitsOfAll(_)
UnitsOfAll(ls) ==
    IF ls = <<>> THEN <<>> ELSE UnitsOf(Head(ls)) \o UnitsOfAll(Tail(ls))

ExpectedUnits == UnitsOfAll(SelectedLanguages(args))

IsPrefix(a, b) == Len(a) <= Len(b) /\ SubSeq(b, 1, Len(a)) = a

\* C9: the units attempted are always the first ones of the discovered,
\* filtered units, in order, and when main ends every one was attempted
\* once, whichever units failed.
C9_EveryUnitAttempted ==
    LET expected == ExpectedUnits
    IN  /\ total_benchmarks = Len(attempted)
        /\ IsPrefix(attempted, expected)
        /\ pc = "exit" => attempted = expected

\* main ended after two units, with two kinds of failure caught
C9_Witness ==
    /\ pc = "exit"
    /\ Len(attempted) >= 2
    /\ {"CalledProcessError", "ValueError"} \subseteq caught

\* C10: when main ends it has exported both reports, printed the summary and
\* exits with status 0.
C10_MainCompletesNormally ==
    pc = "exit"
        => /\ exit_code = Some(0)
           /\ csv_file # None
           /\ md_file # None
           /\ summary # None

\* name a comes before name b in the order of their code points
LexBefore(a, b) ==
    \E k \in 1..(Len(a) + 1) :
        /\ k - 1 <= Len(b)
        /\ \A m \in 1..(k - 1) : a[m] = b[m]
        /\ \/ k = Len(a) + 1 /\ Len(b) >= k
           \/ k <= Len(a) /\ k <= Len(b) /\ Ord(a[k]) < Ord(b[k])

\* C11 as claimed: the entries discovered for a language come in ascending
\* order of their numeric identifier.
C11_AscendingNumeric ==
    \A i, j \in 1..Len(problems) :
        i < j => problems[i].number <= problems[j].number

\* C11, amended: the entries discovered for a language come in ascending
\* lexical order of their directory names.
C11_AscendingLexical ==
    \A i, j \in 1..Len(problems) :
        i < j => LexBefore(problems[i].path, problems[j].path)

\* problem-10 and problem-3 were discovered, 10 before 3
C11_Witness ==
    /\ Len(problems) = 2
    /\ problems[1].number = 10
    /\ problems[2].number = 3

\* C12: the table holds at most one row per (problem, language) after any
\* sequence of update_database calls, also when the calls are made by
\* separate processes that reopen the store; reopening loses no row.
C12_OneRecordPerKey ==
    /\ \A r1, r2 \in benchmarks : SameKey(r1, r2) => r1 = r2
    /\ \A i \in 1..Len(history) :
           history[i].status \in {"new", "improved"}
               => \E r \in benchmarks : SameKey(r, history[i])

\* one process inserted a key and a later process improved it
C12_Witness ==
    \E i, j \in 1..Len(history) :
        /\ i < j
        /\ SameKey(history[i], history[j])
        /\ history[i].process < history[j].process
        /\ history[i].status = "new"
        /\ history[j].status = "improved"
        /\ Cardinality({ r \in benchmarks : SameKey(r, history[i]) }) = 1

\* the lines of results.csv after the header
CsvRows(csv) == SubSeq(csv, 2, Len(csv))

\* the lines of BENCHMARKS.md after the title, the date, the table header
\* and the rule
TableRows(md) == SubSeq(md, 5, Len(md))

\* the lines are one per row of the table, in (problem, language) order
OnePerRecord(lines, table) ==
    /\ Len(lines) = Cardinality(table)
    /\ \A r \in table :
           \E i \in 1..Len(lines) :
               lines[i][1] = r.problem /\ lines[i][2] = r.language
    /\ \A i, j \in 1..Len(lines) :
           i < j => RowBefore([problem |-> lines[i][1], language |-> lines[i][2]],
                              [problem |-> lines[j][1], language |-> lines[j][2]])

\* C13: an export of a store of N rows writes results.csv with N + 1 lines
\* (the header, then one line per row in (problem, language) order) and
\* BENCHMARKS.md with N table rows, and leaves every row of the store as
\* it was.
C13_ExportCounts ==
    [][ pc = "idle" /\ pc' = "closed"
          => /\ csv_file' # None
             /\ Len(csv_file'[1]) = Cardinality(benchmarks) + 1
             /\ OnePerRecord(CsvRows(csv_file'[1]), benchmarks)
             /\ md_file' # None
             /\ OnePerRecord(TableRows(md_file'[1]), benchmarks)
             /\ benchmarks' = benchmarks ]_vars

\* a store of two rows was exported: three lines of CSV, two table rows
C13_Witness ==
    /\ pc = "closed"
    /\ Cardinality(benchmarks) = 2
    /\ csv_file # None
    /\ Len(csv_file[1]) = 3
    /\ md_file # None
    /\ Len(TableRows(md_file[1])) = 2

\* a call that stored its measurement: an insert or an overwrite
Stored(c) == c.status \in {"new", "improved"}

\* C14: once a measurement has been stored for a key, every later state
\* holds a row for that key, and the min_time of the row is never above the
\* min of a measurement stored for the key earlier.
C14_RecordsPersistNeverSlower ==
    \A i \in 1..Len(history) :
        Stored(history[i])
            => \E r \in benchmarks :
                   /\ SameKey(r, history[i])
                   /\ r.min_time <= history[i].stats.min

\* a key was inserted, lowered by a faster measurement, and kept through a
\* slower one
C14_Witness ==
    \E i, j, k \in 1..Len(history) :
        /\ i < j /\ j < k
        /\ SameKey(history[i], history[j]) /\ SameKey(history[j], history[k])
        /\ history[i].status = "new"
        /\ history[j].status = "improved"
        /\ history[k].raised = ""
        /\ history[k].stats.min > history[j].stats.min
        /\ \E r \in benchmarks :
               SameKey(r, history[j]) /\ r.min_time = history[j].stats.min

\* C15: in benchmark, every warm-up invocation comes before the first
\* measured one and records nothing; a call that returns has made exactly
\* WARMUP + RUNS invocations and returns the statistics of exactly RUNS
\* durations; the answer is the output of the first measured run; warm-up
\* outputs are neither recorded nor compared: the inconsistency error is
\* raised only for two measured outputs that differ.
C15_WarmupThenMeasured ==
    /\ pc = "warmup"
         => /\ warm < WARMUP /\ invocations = warm
            /\ times = <<>> /\ outputs = <<>> /\ answer = None
    /\ times # <<>> => warm = WARMUP
    /\ pc = "measure" => invocations = WARMUP + Len(times)
    /\ answer # None => outputs # <<>> /\ answer = Some(outputs[1])
    /\ exc = "ValueError"
         => \E i \in 2..Len(outputs) : outputs[i] # outputs[1]
    /\ pc = "returned"
         => /\ invocations = WARMUP + RUNS
            /\ Len(times) = RUNS
            /\ Len(outputs) = RUNS
            /\ stats = Some(BenchmarkStats(times, answer))
            /\ stats[1].answer = Some(outputs[1])

\* benchmark returned after its warm-up and all its measured runs
C15_Witness ==
    /\ pc = "returned"
    /\ warm = WARMUP /\ warm >= 1
    /\ invocations = WARMUP + RUNS
    /\ stats # None
    /\ Len(times) = RUNS

\* C16: when an invocation, warm-up or measured, exits non-zero, the unit
\* ends there: the failed invocation is the unit's last one, benchmark
\* returns no statistics and the table is as the unit found it.
C16_FailedInvocationAborts ==
    exc = "CalledProcessError"
        => /\ pc \in {"raised", "idle"}
           /\ invocations = warm + Len(times) + 1
           /\ stats = None
           /\ benchmarks = snapshot

\* a measured run failed after an earlier one had succeeded, with runs still
\* to make and rows in the table
C16_Witness ==
    /\ exc = "CalledProcessError"
    /\ pc = "idle"
    /\ times # <<>>
    /\ Len(times) < RUNS
    /\ benchmarks # {}

\* main has run discover_problems for its language
DiscoveryDone == pc # "main" /\ ~(pc = "language" /\ li = 1)

\* the name is "problem-" followed by one or more digits and nothing else
IsProblemInteger(name) ==
    /\ Len(name) > Len(GlobPrefix)
    /\ SubSeq(name, 1, Len(GlobPrefix)) = GlobPrefix
    /\ \A i \in (Len(GlobPrefix) + 1)..Len(name) : IsDigit(name[i])

\* the integer in such a name
IntegerOf(name) == DecimalValue(SubSeq(name, Len(GlobPrefix) + 1, Len(name)))

\* the names of the directories that are named problem-<integer> and hold
\* the entry-point file
Candidates ==
    IF project_root["python"] = None THEN {}
    ELSE { e.name : e \in { x \in project_root["python"][1] :
                              x.is_dir /\ x.has_main /\ IsProblemInteger(x.name) } }

\* C17 as claimed: discover_problems returns one entry for exactly the
\* directories named problem-<integer> that hold the entry-point file, each
\* with the integer of its name, and no two entries share an identifier.
C17_ExactlyProblemInteger ==
    (DiscoveryDone /\ args.problem = None)
        => /\ { problems[i].path : i \in 1..Len(problems) } = Candidates
           /\ \A i \in 1..Len(problems) :
                  /\ IsProblemInteger(problems[i].path)
                  /\ problems[i].number = IntegerOf(problems[i].path)
           /\ \A i, j \in 1..Len(problems) :
                  problems[i].number = problems[j].number => i = j

\* C18 as claimed: when the table the call finds holds two rows of the
\* call's problem with different answers, update_database raises the
\* answer-mismatch error, whatever answer the call brings.
C18_DisagreeingStoreRejects ==
    ( /\ history # <<>>
      /\ \E r1, r2 \in pre :
             /\ r1.problem = LastCall.problem
             /\ r2.problem = LastCall.problem
             /\ r1.answer # r2.answer )
        => LastCall.raised = "ValueError"

\* the calls of update_database that returned the status s
Returning(s) == { i \in 1..Len(history) : history[i].status = s }

\* C19 as claimed: at the end of a batch the summary is printed; its total is
\* the number of units attempted, failed ones included, its new and improved
\* counts are the numbers of units whose update_database returned "new" and
\* "improved", and new + improved <= total.
C19_SummaryCounts ==
    pc = "exit"
        => /\ summary # None
           /\ summary[1].total = Len(attempted)
           /\ summary[1].new = Cardinality(Returning("new"))
           /\ summary[1].improved = Cardinality(Returning("improved"))
           /\ summary[1].new + summary[1].improved <= summary[1].total

\* C20: starting from an empty store, the answer stored for a problem never
\* changes: every row of the problem holds the answer of every measurement
\* ever stored for the problem, so a faster re-run of a key with a different
\* answer is not stored and an "improved" overwrite rewrites the same answer.
C20_AnswerNeverChanges ==
    \A r \in benchmarks :
        \A i \in 1..Len(history) :
            (Stored(history[i]) /\ history[i].problem = r.problem)
                => r.answer = history[i].stats.answer

\* a key was improved, and then a faster re-run of it with another answer was
\* rejected while its row was the only one of the problem
C20_Witness ==
    /\ history # <<>>
    /\ LastCall.raised = "ValueError"
    /\ \E r \in pre : SameKey(r, LastCall) /\ LastCall.stats.min < r.min_time
    /\ \A r \in pre : r.problem = LastCall.problem => SameKey(r, LastCall)
    /\ \E i \in 1..Len(history) :
           history[i].status = "improved" /\ SameKey(history[i], LastCall)
    /\ benchmarks = pre

====
